---- MODULE Spec2Model ----
(***************************************************************************)
(* Model of the DRM PRIME video buffer pool of                             *)
(* xbmc/cores/VideoPlayer/DVDCodecs/Video/DVDVideoCodecDRMPRIME.cpp:       *)
(* CVideoBufferDRMPRIME (one slot), CVideoBufferPoolDRMPRIME (the pool)    *)
(* and the part of CDVDVideoCodecDRMPRIME that talks to the pool.          *)
(*                                                                         *)
(* Slot ids are the C++ ones (0-based); m_all[id + 1] is slot id.          *)
(* Kernel objects (GEM handles, frame-buffer registrations) and AVFrame    *)
(* payloads are numbered from 1; 0 is "absent", as in the code.            *)
(***************************************************************************)
EXTENDS Integers, Sequences, FiniteSets, TLC

\* ---- bounds of the model ----
NumRender == 1          \* render/display threads next to the decode thread
MaxSlots == 2           \* Get() is not called when it would create slot MaxSlots
MaxAcquire == 1         \* Acquire() calls per handout cycle of a slot
MaxPlanesUsed == 1      \* planes the render path imports for a frame
MaxDup == 1             \* surplus entries direct Return() calls may add to the queues
MaxDirectSlots == 1     \* slots the direct caller lets the pool create
MaxFairSlots == 1       \* slots of the pool under fair scheduling
MaxFairRender == 1      \* render threads that run under fair scheduling

\* ---- program constants ----
AV_DRM_MAX_PLANES == 4

Decoder == 0
Threads == 0..NumRender
Renderers == 1..NumRender
NoThread == -1
NoBuf == -1

VARIABLES
  m_all,          \* CVideoBufferPoolDRMPRIME::m_all, the slots
  m_used,         \* CVideoBufferPoolDRMPRIME::m_used
  m_free,         \* CVideoBufferPoolDRMPRIME::m_free
  m_critSection,  \* owner of CVideoBufferPoolDRMPRIME::m_critSection
  poolAlive,      \* the pool object has not been destroyed
  m_videoBufferPool, \* the codec object exists and holds its shared_ptr to the pool
  m_pFrame,       \* CDVDVideoCodecDRMPRIME::m_pFrame: payload it holds, or 0
  videoBuffer,    \* pVideoPicture->videoBuffer of the caller of GetPicture
  held,           \* held[t]: slots a render thread holds a reference to
  pc,             \* position of each thread
  cur,            \* slot the thread's current call works on
  inGetPicture,   \* the Release in progress is the one inside GetPicture
  ret,            \* result of the last GetPicture
  gemOpen,        \* kernel: open GEM handles
  fbOpen,         \* kernel: registered frame buffers
  framesLive,     \* frame payloads that are referenced
  badRelease,     \* a release was issued for an object that was not held
  issued,         \* the release calls of the teardown under observation
  maxUsed         \* the largest length m_used has had

vars == <<m_all, m_used, m_free, m_critSection, poolAlive, m_videoBufferPool,
          m_pFrame, videoBuffer, held, pc, cur, inGetPicture, ret,
          gemOpen, fbOpen, framesLive, badRelease, issued, maxUsed>>

poolVars == <<m_all, m_used, m_free, m_critSection, poolAlive>>
kernelVars == <<gemOpen, fbOpen, framesLive, badRelease>>
codecVars == <<m_videoBufferPool, m_pFrame, videoBuffer, ret>>

\* ---- helpers ----
Ids == 0..(Len(m_all) - 1)
Slot(id) == m_all[id + 1]
Elems(s) == {s[k] : k \in 1..Len(s)}
Count(s, x) == Cardinality({k \in 1..Len(s) : s[k] = x})
NoHandles == [p \in 0..(AV_DRM_MAX_PLANES - 1) |-> 0]

\* lowest n numbers not in S (the kernel hands out the lowest free handle)
RECURSIVE LowestFree(_, _)
LowestFree(S, n) ==
  IF n = 0 THEN <<>>
  ELSE LET h == CHOOSE x \in 1..(Cardinality(S) + 1) : x \notin S
       IN <<h>> \o LowestFree(S \cup {h}, n - 1)

\* std::deque erase of the first element equal to id (the loop of Return)
RECURSIVE EraseFirst(_, _)
EraseFirst(s, id) ==
  IF s = <<>> THEN <<>>
  ELSE IF Head(s) = id THEN Tail(s)
  ELSE <<Head(s)>> \o EraseFirst(Tail(s), id)

\* the constructor as it would be if it did not pass id on to CVideoBuffer
NewBuffer_IdZero(id) ==
  [m_id |-> 0, m_refCount |-> 0, m_pool |-> FALSE, m_pFrame |-> 0,
   m_fb_id |-> 0, m_handles |-> NoHandles, nDelete |-> 0,
   nAcquire |-> 0, nRelease |-> 0, nReturn |-> 0]

\* CVideoBufferDRMPRIME::CVideoBufferDRMPRIME
NewBuffer(id) ==
  [m_id |-> id, m_refCount |-> 0, m_pool |-> FALSE, m_pFrame |-> 0,
   m_fb_id |-> 0, m_handles |-> NoHandles, nDelete |-> 0,
   nAcquire |-> 0, nRelease |-> 0, nReturn |-> 0]

\* SetRef as it would be if the move of the frame were lost
SetRef_NoMove(buf, frame) == buf

\* CVideoBufferDRMPRIME::SetRef: av_frame_move_ref overwrites the slot's
\* frame with the new payload; nothing the slot held is released.
SetRef(buf, frame) == [buf EXCEPT !.m_pFrame = frame]

\* the GEM_CLOSE calls of the loop of Unref, planes i..AV_DRM_MAX_PLANES-1
RECURSIVE GemCloseCalls(_, _)
GemCloseCalls(buf, i) ==
  IF i >= AV_DRM_MAX_PLANES THEN <<>>
  ELSE (IF buf.m_handles[i] # 0
          THEN <<[op |-> "DRM_IOCTL_GEM_CLOSE", arg |-> buf.m_handles[i]]>>
          ELSE <<>>) \o GemCloseCalls(buf, i + 1)

\* Unref as it would be without "m_fb_id = 0"
Unref_KeepFb(buf) ==
  [buf |-> [buf EXCEPT !.m_handles = NoHandles, !.m_pFrame = 0],
   calls |-> (IF buf.m_fb_id # 0
                THEN <<[op |-> "drmModeRmFB", arg |-> buf.m_fb_id]>>
                ELSE <<>>)
             \o GemCloseCalls(buf, 0)
             \o <<[op |-> "av_frame_unref", arg |-> buf.m_pFrame]>>]

\* Unref as it would be without "m_handles[i] = 0"
Unref_KeepHandles(buf) ==
  [buf |-> [buf EXCEPT !.m_fb_id = 0, !.m_pFrame = 0],
   calls |-> (IF buf.m_fb_id # 0
                THEN <<[op |-> "drmModeRmFB", arg |-> buf.m_fb_id]>>
                ELSE <<>>)
             \o GemCloseCalls(buf, 0)
             \o <<[op |-> "av_frame_unref", arg |-> buf.m_pFrame]>>]

\* Unref as it would be with the loop over m_handles before the drmModeRmFB
Unref_CloseBeforeRmFB(buf) ==
  [buf |-> [buf EXCEPT !.m_fb_id = 0, !.m_handles = NoHandles, !.m_pFrame = 0],
   calls |-> GemCloseCalls(buf, 0)
             \o (IF buf.m_fb_id # 0
                   THEN <<[op |-> "drmModeRmFB", arg |-> buf.m_fb_id]>>
                   ELSE <<>>)
             \o <<[op |-> "av_frame_unref", arg |-> buf.m_pFrame]>>]

\* CVideoBufferDRMPRIME::Unref: the slot afterwards and the calls issued
Unref(buf) ==
  [buf |-> [buf EXCEPT !.m_fb_id = 0, !.m_handles = NoHandles, !.m_pFrame = 0],
   calls |-> (IF buf.m_fb_id # 0
                THEN <<[op |-> "drmModeRmFB", arg |-> buf.m_fb_id]>>
                ELSE <<>>)
             \o GemCloseCalls(buf, 0)
             \o <<[op |-> "av_frame_unref", arg |-> buf.m_pFrame]>>]

\* Unref as it would be if it gave up at the first call that fails
UnrefFailing_StopAtFailure(buf, F) ==
  LET u == Unref(buf)
      n == IF F = {} THEN Len(u.calls)
           ELSE CHOOSE k \in F : \A j \in F : k <= j
  IN [buf |-> u.buf,
      calls |-> [k \in 1..n |->
                   [op |-> u.calls[k].op, arg |-> u.calls[k].arg, ok |-> k \notin F]]]

\* Unref when the kernel calls with the positions in F fail: the results of
\* drmModeRmFB and drmIoctl are not looked at, so every call is made and
\* every member is set to 0 whatever the results are
UnrefFailing(buf, F) ==
  LET u == Unref(buf)
  IN [buf |-> u.buf,
      calls |-> [k \in 1..Len(u.calls) |->
                   [op |-> u.calls[k].op, arg |-> u.calls[k].arg, ok |-> k \notin F]]]

\* the calls that took effect: a call that fails releases nothing
Succeeded(calls) ==
  [k \in 1..Len(calls) |->
     [op |-> calls[k].op, arg |-> IF calls[k].ok THEN calls[k].arg ELSE 0]]

Args(calls, o) == {calls[k].arg : k \in {j \in 1..Len(calls) : calls[j].op = o}} \ {0}
KernelCalls(calls) == SelectSeq(calls, LAMBDA c : c.op # "av_frame_unref")
\* a call releases an object that is not held, or the same object twice
Bad(calls) ==
  \/ \E k \in 1..Len(calls) :
       /\ calls[k].arg # 0
       /\ \/ calls[k].op = "drmModeRmFB" /\ calls[k].arg \notin fbOpen
          \/ calls[k].op = "DRM_IOCTL_GEM_CLOSE" /\ calls[k].arg \notin gemOpen
          \/ calls[k].op = "av_frame_unref" /\ calls[k].arg \notin framesLive
  \/ \E j, k \in 1..Len(calls) : j < k /\ calls[j] = calls[k] /\ calls[j].arg # 0

\* the effect of a sequence of release calls on the kernel and the payloads
Issue(calls) ==
  /\ fbOpen' = fbOpen \ Args(calls, "drmModeRmFB")
  /\ gemOpen' = gemOpen \ Args(calls, "DRM_IOCTL_GEM_CLOSE")
  /\ framesLive' = framesLive \ Args(calls, "av_frame_unref")
  /\ badRelease' = (badRelease \/ Bad(calls))

Idle(buf) == buf.m_fb_id = 0 /\ buf.m_handles = NoHandles /\ buf.m_pFrame = 0

\* CVideoBuffer::Acquire(pool), called at the end of Get: one more holder,
\* and the buffer keeps a shared reference to the pool
AcquirePool(buf) == [buf EXCEPT !.m_refCount = @ + 1, !.m_pool = TRUE]

\* CVideoBuffer::Acquire()
AcquireRef(buf) == [buf EXCEPT !.m_refCount = @ + 1, !.nAcquire = @ + 1]

\* Get as it would be if a recycled buffer were handed out without Acquire
PoolGet_NoAcquireOnReuse(all, used, free) ==
  IF free # <<>>
    THEN [all |-> all, used |-> Append(used, Head(free)), free |-> Tail(free),
          id |-> Head(free)]
    ELSE [all |-> Append(all, AcquirePool(NewBuffer(Len(all)))),
          used |-> Append(used, Len(all)), free |-> free, id |-> Len(all)]

\* Get as it would be if it never looked at m_free
PoolGet_AlwaysNew(all, used, free) ==
  [all |-> Append(all, AcquirePool(NewBuffer(Len(all)))),
   used |-> Append(used, Len(all)), free |-> free, id |-> Len(all)]

\* Get as it would be with Acquire() in place of Acquire(GetPtr())
PoolGet_NoPoolRef(all, used, free) ==
  IF free # <<>>
    THEN [all |-> [all EXCEPT ![Head(free) + 1] = [@ EXCEPT !.m_refCount = @ + 1]],
          used |-> Append(used, Head(free)), free |-> Tail(free), id |-> Head(free)]
    ELSE [all |-> Append(all, [NewBuffer(Len(all)) EXCEPT !.m_refCount = 1]),
          used |-> Append(used, Len(all)), free |-> free, id |-> Len(all)]

\* the body of CVideoBufferPoolDRMPRIME::Get: the pool afterwards and the id
\* of the buffer it returns
PoolGet(all, used, free) ==
  IF free # <<>>
    THEN LET idx == Head(free)
         IN [all |-> [all EXCEPT ![idx + 1] = AcquirePool(@)],
             used |-> Append(used, idx), free |-> Tail(free), id |-> idx]
    ELSE LET id == Len(all)
         IN [all |-> Append(all, AcquirePool(NewBuffer(id))),
             used |-> Append(used, id), free |-> free, id |-> id]

\* Return as it would be without the erase from m_used
PoolReturn_NoErase(used, free, id) ==
  [used |-> used, free |-> Append(free, id)]

\* Return as it would be with a second push_back
PoolReturn_PushTwice(used, free, id) ==
  [used |-> EraseFirst(used, id), free |-> Append(Append(free, id), id)]

\* Return as it would be without the push_back on m_free
PoolReturn_NoPush(used, free, id) ==
  [used |-> EraseFirst(used, id), free |-> free]

\* Return as it would be with push_front in place of push_back
PoolReturn_PushFront(used, free, id) ==
  [used |-> EraseFirst(used, id), free |-> <<id>> \o free]

\* the list updates of CVideoBufferPoolDRMPRIME::Return, after the Unref
PoolReturn(used, free, id) ==
  [used |-> EraseFirst(used, id), free |-> Append(free, id)]

\* CVideoBufferPoolDRMPRIME::~CVideoBufferPoolDRMPRIME with
\* CVideoBufferDRMPRIME::~CVideoBufferDRMPRIME: every buffer of m_all is
\* unreferenced and deleted, in the order of m_all
RECURSIVE DestroyCalls(_, _)
DestroyCalls(all, k) ==
  IF k > Len(all) THEN <<>>
  ELSE Unref(all[k]).calls \o DestroyCalls(all, k + 1)

\* the pool destructor as it would be if its loop started at the second buffer
DestroyBuffers_SkipFirst(all) ==
  [k \in 1..Len(all) |->
     IF k = 1 THEN all[k] ELSE [Unref(all[k]).buf EXCEPT !.nDelete = @ + 1]]

DestroyBuffers(all) ==
  [k \in 1..Len(all) |-> [Unref(all[k]).buf EXCEPT !.nDelete = @ + 1]]

\* the last shared reference to the pool goes away: the pool is destroyed
DestroyPool(all) ==
  /\ poolAlive' = FALSE
  /\ m_all' = DestroyBuffers(all)
  /\ Issue(DestroyCalls(all, 1))

\* a cycle of a slot starts when Get hands it out
StartCycle(buf) ==
  [buf EXCEPT !.nAcquire = 0, !.nRelease = 0, !.nReturn = 0]

TypeOK ==
  /\ m_used \in Seq(Ids) /\ m_free \in Seq(Ids)
  /\ m_critSection \in Threads \cup {NoThread}
  /\ poolAlive \in BOOLEAN /\ m_videoBufferPool \in BOOLEAN
  /\ videoBuffer \in Ids \cup {NoBuf}
  /\ \A t \in Renderers : held[t] \subseteq Ids
  /\ \A t \in Threads : cur[t] \in Ids \cup {NoBuf}

Init ==
  /\ m_all = <<>> /\ m_used = <<>> /\ m_free = <<>>
  /\ m_critSection = NoThread
  /\ poolAlive = TRUE
  /\ m_videoBufferPool = TRUE
  /\ m_pFrame = 0
  /\ videoBuffer = NoBuf
  /\ held = [t \in Renderers |-> {}]
  /\ pc = [t \in Threads |-> "idle"]
  /\ cur = [t \in Threads |-> NoBuf]
  /\ inGetPicture = FALSE
  /\ ret = "none"
  /\ gemOpen = {} /\ fbOpen = {} /\ framesLive = {}
  /\ badRelease = FALSE
  /\ issued = <<>>
  /\ maxUsed = 0

\* ---- CDVDVideoCodecDRMPRIME::GetPicture, on the decode thread ----

\* the early return as it would be if it came after the reset of videoBuffer
GetPictureNoFrame_DropsBuffer(r) ==
  /\ pc[Decoder] = "idle" /\ m_videoBufferPool
  /\ r \in {"VC_BUFFER", "VC_EOF", "VC_ERROR"}
  /\ ret' = r
  /\ videoBuffer' = NoBuf
  /\ UNCHANGED <<poolVars, kernelVars, m_videoBufferPool, m_pFrame,
                 held, pc, cur, inGetPicture>>
  /\ UNCHANGED <<issued, maxUsed>>

\* avcodec_receive_frame or av_hwframe_map gives no picture: return early
GetPictureNoFrame(r) ==
  /\ pc[Decoder] = "idle" /\ m_videoBufferPool
  /\ r \in {"VC_BUFFER", "VC_EOF", "VC_ERROR"}
  /\ ret' = r
  /\ UNCHANGED <<poolVars, kernelVars, m_videoBufferPool, m_pFrame, videoBuffer,
                 held, pc, cur, inGetPicture>>
  /\ UNCHANGED <<issued, maxUsed>>

\* the atomic step of CVideoBuffer::Release: decrement the count and test it
\* for zero; the releaser of the last reference takes over the buffer's
\* shared reference to the pool for the time of the Return
ReleaseRef(buf) ==
  [buf EXCEPT !.m_refCount = @ - 1, !.nRelease = @ + 1,
              !.m_pool = IF buf.m_refCount - 1 <= 0 THEN FALSE ELSE @]
IsLast(buf) == buf.m_refCount - 1 <= 0 /\ buf.m_pool

\* a frame is received into m_pFrame; the previous buffer of the picture,
\* if any, is released
GetPictureFrame ==
  /\ pc[Decoder] = "idle" /\ m_videoBufferPool
  /\ LET f == LowestFree(framesLive, 1)[1]
     IN /\ m_pFrame' = f
        /\ framesLive' = framesLive \cup {f}
  /\ IF videoBuffer # NoBuf
       THEN /\ m_all' = [m_all EXCEPT ![videoBuffer + 1] = ReleaseRef(@)]
            /\ IF IsLast(Slot(videoBuffer))
                 THEN /\ pc' = [pc EXCEPT ![Decoder] = "return"]
                      /\ cur' = [cur EXCEPT ![Decoder] = videoBuffer]
                      /\ inGetPicture' = TRUE
                      /\ UNCHANGED videoBuffer
                 ELSE /\ pc' = [pc EXCEPT ![Decoder] = "get"]
                      /\ videoBuffer' = NoBuf
                      /\ UNCHANGED <<cur, inGetPicture>>
       ELSE /\ pc' = [pc EXCEPT ![Decoder] = "get"]
            /\ UNCHANGED <<m_all, cur, inGetPicture, videoBuffer>>
  /\ UNCHANGED <<m_used, m_free, m_critSection, poolAlive, m_videoBufferPool,
                 held, ret, gemOpen, fbOpen, badRelease>>
  /\ UNCHANGED <<issued, maxUsed>>

\* m_videoBufferPool->Get(): CVideoBufferPoolDRMPRIME::Get under the lock
Get ==
  /\ pc[Decoder] = "get"
  /\ m_critSection = NoThread
  /\ m_free # <<>> \/ Len(m_all) < MaxSlots
  /\ m_free # <<>> => Slot(Head(m_free)).m_refCount <= MaxAcquire
  /\ LET g == PoolGet(m_all, m_used, m_free)
     IN /\ m_all' = [g.all EXCEPT ![g.id + 1] = StartCycle(@)]
        /\ m_used' = g.used
        /\ m_free' = g.free
        /\ cur' = [cur EXCEPT ![Decoder] = g.id]
  /\ pc' = [pc EXCEPT ![Decoder] = "setref"]
  /\ UNCHANGED <<m_critSection, poolAlive, kernelVars, codecVars, held, inGetPicture>>
  /\ maxUsed' = IF Len(m_used) + 1 > maxUsed THEN Len(m_used) + 1 ELSE maxUsed
  /\ UNCHANGED issued

\* buffer->SetRef(m_pFrame); pVideoPicture->videoBuffer = buffer; VC_PICTURE
GetPictureEnd ==
  /\ pc[Decoder] = "setref"
  /\ m_all' = [m_all EXCEPT ![cur[Decoder] + 1] = SetRef(@, m_pFrame)]
  /\ m_pFrame' = 0
  /\ videoBuffer' = cur[Decoder]
  /\ ret' = "VC_PICTURE"
  /\ pc' = [pc EXCEPT ![Decoder] = "idle"]
  /\ cur' = [cur EXCEPT ![Decoder] = NoBuf]
  /\ UNCHANGED <<m_used, m_free, m_critSection, poolAlive, kernelVars,
                 m_videoBufferPool, held, inGetPicture>>
  /\ UNCHANGED <<issued, maxUsed>>

\* ---- CVideoBuffer::Release, on any thread that holds a reference ----

\* a render thread releases one of its references
Release(t, id) ==
  /\ t \in Renderers /\ pc[t] = "idle" /\ poolAlive
  /\ id \in held[t]
  /\ held' = [held EXCEPT ![t] = @ \ {id}]
  /\ m_all' = [m_all EXCEPT ![id + 1] = ReleaseRef(@)]
  /\ IF IsLast(Slot(id))
       THEN /\ pc' = [pc EXCEPT ![t] = "return"]
            /\ cur' = [cur EXCEPT ![t] = id]
       ELSE UNCHANGED <<pc, cur>>
  /\ UNCHANGED <<m_used, m_free, m_critSection, poolAlive, kernelVars, codecVars,
                 inGetPicture>>
  /\ UNCHANGED <<issued, maxUsed>>

\* the caller of GetPicture releases the buffer of its picture
ReleasePicture ==
  /\ pc[Decoder] = "idle" /\ poolAlive
  /\ videoBuffer # NoBuf
  /\ videoBuffer' = NoBuf
  /\ m_all' = [m_all EXCEPT ![videoBuffer + 1] = ReleaseRef(@)]
  /\ IF IsLast(Slot(videoBuffer))
       THEN /\ pc' = [pc EXCEPT ![Decoder] = "return"]
            /\ cur' = [cur EXCEPT ![Decoder] = videoBuffer]
            /\ inGetPicture' = FALSE
       ELSE UNCHANGED <<pc, cur, inGetPicture>>
  /\ UNCHANGED <<m_used, m_free, m_critSection, poolAlive, kernelVars,
                 m_videoBufferPool, m_pFrame, ret, held>>
  /\ UNCHANGED <<issued, maxUsed>>

\* Return as it would be without the CSingleLock
ReturnEnter_NoLock(t) ==
  /\ pc[t] \in {"return", "rawreturn"}
  /\ LET u == Unref(Slot(cur[t]))
     IN /\ m_all' = [m_all EXCEPT ![cur[t] + 1] = u.buf]
        /\ Issue(u.calls)
  /\ pc' = [pc EXCEPT ![t] = IF pc[t] = "return" THEN "returning" ELSE "rawreturning"]
  /\ UNCHANGED <<m_used, m_free, m_critSection, poolAlive, codecVars, held, cur,
                 inGetPicture>>
  /\ UNCHANGED <<issued, maxUsed>>

\* CVideoBufferPoolDRMPRIME::Return, first part: take the lock, Unref the slot
ReturnEnter(t) ==
  /\ pc[t] \in {"return", "rawreturn"}
  /\ m_critSection = NoThread
  /\ m_critSection' = t
  /\ LET u == Unref(Slot(cur[t]))
     IN /\ m_all' = [m_all EXCEPT ![cur[t] + 1] = u.buf]
        /\ Issue(u.calls)
  /\ pc' = [pc EXCEPT ![t] = IF pc[t] = "return" THEN "returning" ELSE "rawreturning"]
  /\ UNCHANGED <<m_used, m_free, poolAlive, codecVars, held, cur, inGetPicture>>
  /\ UNCHANGED <<issued, maxUsed>>

\* CVideoBufferPoolDRMPRIME::Return, second part: move the id from m_used to
\* m_free and leave the lock
ReturnLeave(t) ==
  /\ pc[t] \in {"returning", "rawreturning"}
  /\ LET r == PoolReturn(m_used, m_free, cur[t])
     IN /\ m_used' = r.used
        /\ m_free' = r.free
  /\ m_all' = [m_all EXCEPT ![cur[t] + 1] =
                 [@ EXCEPT !.nReturn = IF @ < 2 THEN @ + 1 ELSE @]]
  /\ m_critSection' = NoThread
  /\ pc' = [pc EXCEPT ![t] = IF pc[t] = "returning" THEN "released" ELSE "idle"]
  /\ cur' = [cur EXCEPT ![t] = IF pc[t] = "returning" THEN @ ELSE NoBuf]
  /\ UNCHANGED <<poolAlive, kernelVars, codecVars, held, inGetPicture>>
  /\ UNCHANGED <<issued, maxUsed>>

InRelease(t) == pc[t] \in {"return", "returning", "released"}

\* shared references to the pool: the codec's, one per handed-out buffer and
\* one per Release that is returning a buffer
PoolRefs == (IF m_videoBufferPool THEN 1 ELSE 0)
            + Cardinality({id \in Ids : Slot(id).m_pool})
            + Cardinality({t \in Threads : InRelease(t)})

\* the end of the last Release: the reference to the pool is given up; the
\* pool is destroyed when it was the last one
ReleaseEnd(t) ==
  /\ pc[t] = "released"
  /\ IF PoolRefs = 1
       THEN DestroyPool(m_all)
       ELSE UNCHANGED <<m_all, poolAlive, kernelVars>>
  /\ pc' = [pc EXCEPT ![t] = IF t = Decoder /\ inGetPicture THEN "get" ELSE "idle"]
  /\ cur' = [cur EXCEPT ![t] = NoBuf]
  /\ videoBuffer' = IF t = Decoder /\ inGetPicture THEN NoBuf ELSE videoBuffer
  /\ inGetPicture' = IF t = Decoder THEN FALSE ELSE inGetPicture
  /\ UNCHANGED <<m_used, m_free, m_critSection, m_videoBufferPool, m_pFrame,
                 ret, held>>
  /\ UNCHANGED <<issued, maxUsed>>

\* ---- the consumers ----
Holds(t, id) == IF t = Decoder THEN videoBuffer = id ELSE id \in held[t]

\* a holder calls Acquire and hands the new reference to render thread u
Acquire(t, u, id) ==
  /\ pc[t] = "idle" /\ poolAlive
  /\ id \in Ids /\ Holds(t, id)
  /\ u \in Renderers /\ id \notin held[u]
  /\ Slot(id).nAcquire < MaxAcquire
  /\ m_all' = [m_all EXCEPT ![id + 1] = AcquireRef(@)]
  /\ held' = [held EXCEPT ![u] = @ \cup {id}]
  /\ UNCHANGED <<m_used, m_free, m_critSection, poolAlive, kernelVars, codecVars,
                 pc, cur, inGetPicture>>
  /\ UNCHANGED <<issued, maxUsed>>

\* the render path imports the frame of a buffer it holds: one GEM handle per
\* plane and one frame-buffer registration
Import(t, id, n) ==
  /\ t \in Renderers /\ pc[t] = "idle" /\ poolAlive
  /\ id \in held[t]
  /\ Slot(id).m_pFrame # 0 /\ Slot(id).m_fb_id = 0
  /\ n \in 1..MaxPlanesUsed
  /\ LET hs == LowestFree(gemOpen, n)
         fb == LowestFree(fbOpen, 1)[1]
     IN /\ m_all' = [m_all EXCEPT ![id + 1] =
                      [@ EXCEPT !.m_fb_id = fb,
                                !.m_handles = [p \in 0..(AV_DRM_MAX_PLANES - 1) |->
                                                 IF p < n THEN hs[p + 1] ELSE 0]]]
        /\ gemOpen' = gemOpen \cup Elems(hs)
        /\ fbOpen' = fbOpen \cup {fb}
  /\ UNCHANGED <<m_used, m_free, m_critSection, poolAlive, framesLive, badRelease,
                 codecVars, held, pc, cur, inGetPicture>>
  /\ UNCHANGED <<issued, maxUsed>>

\* ---- CDVDVideoCodecDRMPRIME::~CDVDVideoCodecDRMPRIME ----
\* the codec gives up m_videoBufferPool; the pool is destroyed when no buffer
\* holds a reference to it
DestroyCodec ==
  /\ pc[Decoder] = "idle" /\ m_videoBufferPool
  /\ m_videoBufferPool' = FALSE
  /\ IF PoolRefs = 1
       THEN DestroyPool(m_all)
       ELSE UNCHANGED <<m_all, poolAlive, kernelVars>>
  /\ UNCHANGED <<m_used, m_free, m_critSection, m_pFrame, videoBuffer, ret,
                 held, pc, cur, inGetPicture>>
  /\ UNCHANGED <<issued, maxUsed>>

\* ---- a caller that uses the pool and its buffers directly ----
\* (one thread: every call runs to its end before the next one starts)
DirectUnchanged ==
  UNCHANGED <<m_critSection, poolAlive, codecVars, held, pc, cur, inGetPicture,
              issued>>

QueueRoom(id) ==
  Count(m_used, id) > 0 \/ Len(m_used) + Len(m_free) < Len(m_all) + MaxDup

\* pool->Get()
DirectGet ==
  /\ m_free # <<>> \/ Len(m_all) < MaxDirectSlots
  /\ m_free # <<>> => Slot(Head(m_free)).m_refCount <= MaxAcquire
  /\ LET g == PoolGet(m_all, m_used, m_free)
     IN /\ m_all' = [g.all EXCEPT ![g.id + 1] = StartCycle(@)]
        /\ m_used' = g.used
        /\ m_free' = g.free
  /\ UNCHANGED kernelVars
  /\ DirectUnchanged
  /\ maxUsed' = IF Len(m_used) + 1 > maxUsed THEN Len(m_used) + 1 ELSE maxUsed

\* pool->Return(id), for any id the pool has created
DirectReturn(id) ==
  /\ id \in Ids /\ QueueRoom(id)
  /\ LET u == Unref(Slot(id))
         r == PoolReturn(m_used, m_free, id)
     IN /\ m_all' = [m_all EXCEPT ![id + 1] =
                       [u.buf EXCEPT !.nReturn = IF @ < 2 THEN @ + 1 ELSE @]]
        /\ Issue(u.calls)
        /\ m_used' = r.used
        /\ m_free' = r.free
  /\ DirectUnchanged
  /\ UNCHANGED maxUsed

\* buffer->Release() on a buffer with holders
DirectRelease(id) ==
  /\ id \in Ids /\ Slot(id).m_refCount > 0 /\ QueueRoom(id)
  /\ IF IsLast(Slot(id))
       THEN LET u == Unref(ReleaseRef(Slot(id)))
                r == PoolReturn(m_used, m_free, id)
            IN /\ m_all' = [m_all EXCEPT ![id + 1] =
                              [u.buf EXCEPT !.nReturn = IF @ < 2 THEN @ + 1 ELSE @]]
               /\ Issue(u.calls)
               /\ m_used' = r.used
               /\ m_free' = r.free
       ELSE /\ m_all' = [m_all EXCEPT ![id + 1] = ReleaseRef(@)]
            /\ UNCHANGED <<m_used, m_free, kernelVars>>
  /\ DirectUnchanged
  /\ UNCHANGED maxUsed

\* buffer->SetRef(frame) on a buffer Get has handed out, with a new payload
DirectSetRef(id) ==
  /\ id \in Elems(m_used)
  /\ Cardinality(framesLive) < MaxDirectSlots + MaxDup
  /\ LET f == LowestFree(framesLive, 1)[1]
     IN /\ m_all' = [m_all EXCEPT ![id + 1] = SetRef(@, f)]
        /\ framesLive' = framesLive \cup {f}
  /\ UNCHANGED <<m_used, m_free, gemOpen, fbOpen, badRelease>>
  /\ DirectUnchanged
  /\ UNCHANGED maxUsed

\* the render path imports the frame of a buffer Get has handed out
DirectImport(id, n) ==
  /\ id \in Elems(m_used)
  /\ Slot(id).m_pFrame # 0 /\ Slot(id).m_fb_id = 0
  /\ n \in 1..MaxPlanesUsed
  /\ LET hs == LowestFree(gemOpen, n)
         fb == LowestFree(fbOpen, 1)[1]
     IN /\ m_all' = [m_all EXCEPT ![id + 1] =
                      [@ EXCEPT !.m_fb_id = fb,
                                !.m_handles = [p \in 0..(AV_DRM_MAX_PLANES - 1) |->
                                                 IF p < n THEN hs[p + 1] ELSE 0]]]
        /\ gemOpen' = gemOpen \cup Elems(hs)
        /\ fbOpen' = fbOpen \cup {fb}
  /\ UNCHANGED <<m_used, m_free, framesLive, badRelease>>
  /\ DirectUnchanged
  /\ UNCHANGED maxUsed

Next ==
  \/ \E r \in {"VC_BUFFER", "VC_EOF", "VC_ERROR"} : GetPictureNoFrame(r)
  \/ GetPictureFrame
  \/ Get
  \/ GetPictureEnd
  \/ \E t \in Renderers, id \in Ids : Release(t, id)
  \/ ReleasePicture
  \/ \E t \in Threads : ReturnEnter(t)
  \/ \E t \in Threads : ReturnLeave(t)
  \/ \E t \in Threads : ReleaseEnd(t)
  \/ \E t \in Threads, u \in Renderers, id \in Ids : Acquire(t, u, id)
  \/ \E t \in Renderers, id \in Ids, n \in 1..MaxPlanesUsed : Import(t, id, n)
  \/ DestroyCodec

Spec == Init /\ [][Next]_vars

NextPool ==
  \/ DirectGet
  \/ \E id \in Ids : DirectReturn(id)
  \/ \E id \in Ids : DirectRelease(id)
  \/ \E id \in Ids : DirectSetRef(id)
  \/ \E id \in Ids, n \in 1..MaxPlanesUsed : DirectImport(id, n)

\* the pool and its buffers under arbitrary sequences of direct calls
SpecPool == Init /\ [][NextPool]_vars

\* ---- the allocation path of Get fails during a decode ----

\* the "else" branch of Get with a failing allocation. "bad_alloc": operator
\* new throws; the lock is left by the unwinding, the pool is as it was and
\* the exception leaves Get and GetPicture, which catches nothing.
\* "null_frame": av_frame_alloc in the buffer's constructor returns NULL, which
\* the constructor does not test; Get puts the buffer in m_all and m_used and
\* returns it.
GetAllocFail(kind) ==
  /\ pc[Decoder] = "get"
  /\ m_critSection = NoThread
  /\ m_free = <<>>
  /\ kind \in {"bad_alloc", "null_frame"}
  /\ IF kind = "bad_alloc"
       THEN /\ pc' = [pc EXCEPT ![Decoder] = "thrown"]
            /\ UNCHANGED <<m_all, m_used, m_free, cur, maxUsed>>
       ELSE /\ Len(m_all) < MaxSlots
            /\ LET g == PoolGet(m_all, m_used, m_free)
               IN /\ m_all' = [g.all EXCEPT ![g.id + 1] = StartCycle(@)]
                  /\ m_used' = g.used
                  /\ m_free' = g.free
                  /\ cur' = [cur EXCEPT ![Decoder] = g.id]
            /\ maxUsed' = IF Len(m_used) + 1 > maxUsed THEN Len(m_used) + 1 ELSE maxUsed
            /\ pc' = [pc EXCEPT ![Decoder] = "setref_null"]
  /\ UNCHANGED <<m_critSection, poolAlive, kernelVars, codecVars, held, inGetPicture,
                 issued>>

\* buffer->SetRef(m_pFrame) on a buffer whose m_pFrame is NULL:
\* av_frame_move_ref writes through the null pointer. The behaviour is
\* undefined: the process stops there, or GetPicture goes on to hand out the
\* buffer, which has no frame, with VC_PICTURE.
SetRefNull(outcome) ==
  /\ pc[Decoder] = "setref_null"
  /\ outcome \in {"crash", "continue"}
  /\ IF outcome = "crash"
       THEN /\ pc' = [pc EXCEPT ![Decoder] = "crashed"]
            /\ UNCHANGED <<videoBuffer, ret>>
       ELSE /\ pc' = [pc EXCEPT ![Decoder] = "undefined"]
            /\ videoBuffer' = cur[Decoder]
            /\ ret' = "VC_PICTURE"
  /\ UNCHANGED <<poolVars, kernelVars, m_videoBufferPool, m_pFrame, held, cur,
                 inGetPicture, issued, maxUsed>>

NextAlloc ==
  \/ \E r \in {"VC_BUFFER", "VC_EOF", "VC_ERROR"} : GetPictureNoFrame(r)
  \/ GetPictureFrame
  \/ Get
  \/ GetPictureEnd
  \/ \E t \in Renderers, id \in Ids : Release(t, id)
  \/ ReleasePicture
  \/ \E t \in Threads : ReturnEnter(t)
  \/ \E t \in Threads : ReturnLeave(t)
  \/ \E t \in Threads : ReleaseEnd(t)
  \/ \E t \in Threads, u \in Renderers, id \in Ids : Acquire(t, u, id)
  \/ \E t \in Renderers, id \in Ids, n \in 1..MaxPlanesUsed : Import(t, id, n)
  \/ DestroyCodec
  \/ \E kind \in {"bad_alloc", "null_frame"} : GetAllocFail(kind)
  \/ \E outcome \in {"crash", "continue"} : SetRefNull(outcome)

\* the codec and its consumers, where an allocation in Get can fail
SpecAlloc == Init /\ [][NextAlloc]_vars


\* ---- the codec and its consumers under fair scheduling ----
FairRenderers == 1..MaxFairRender
FairThreads == {Decoder} \cup (FairRenderers \cap Renderers)

\* Get, as long as the pool has no more than MaxFairSlots slots
GetFair == Get /\ Len(m_all') <= MaxFairSlots

NextFair ==
  \/ \E r \in {"VC_BUFFER", "VC_EOF", "VC_ERROR"} : GetPictureNoFrame(r)
  \/ GetPictureFrame
  \/ GetFair
  \/ GetPictureEnd
  \/ \E t \in FairThreads, id \in Ids : Release(t, id)
  \/ ReleasePicture
  \/ \E t \in FairThreads : ReturnEnter(t)
  \/ \E t \in FairThreads : ReturnLeave(t)
  \/ \E t \in FairThreads : ReleaseEnd(t)
  \/ \E t \in FairThreads, u \in FairThreads, id \in Ids : Acquire(t, u, id)
  \/ \E t \in FairThreads, id \in Ids, n \in 1..MaxPlanesUsed : Import(t, id, n)
  \/ DestroyCodec

\* a thread that waits for the pool lock gets it, and a thread inside Return
\* goes on
FairSpec ==
  /\ Init /\ [][NextFair]_vars
  /\ \A t \in Threads : SF_vars(ReturnEnter(t)) /\ WF_vars(ReturnLeave(t))

\* ---- the Return of one buffer, whatever it holds, with failing kernel calls ----

\* a pool with one buffer, handed out and holding any of what a buffer can
\* hold; a thread has released the last reference and is about to call Return
InitTeardown ==
  \E t \in Threads, fb \in {0, 1}, n \in 0..AV_DRM_MAX_PLANES, f \in {0, 1} :
    /\ fb # 0 => n > 0
    /\ n > 0 => f # 0
    /\ m_all = <<[NewBuffer(0) EXCEPT
                    !.m_pFrame = f, !.m_fb_id = fb, !.nRelease = 1,
                    !.m_handles = [p \in 0..(AV_DRM_MAX_PLANES - 1) |->
                                     IF p < n THEN n - p ELSE 0]]>>
    /\ m_used = <<0>> /\ m_free = <<>>
    /\ m_critSection = NoThread
    /\ poolAlive = TRUE
    /\ m_videoBufferPool = TRUE
    /\ m_pFrame = 0
    /\ videoBuffer = NoBuf
    /\ held = [u \in Renderers |-> {}]
    /\ pc = [u \in Threads |-> IF u = t THEN "return" ELSE "idle"]
    /\ cur = [u \in Threads |-> IF u = t THEN 0 ELSE NoBuf]
    /\ inGetPicture = FALSE
    /\ ret = "VC_PICTURE"
    /\ gemOpen = 1..n /\ fbOpen = {fb} \ {0} /\ framesLive = {f} \ {0}
    /\ badRelease = FALSE
    /\ issued = <<>>
    /\ maxUsed = 1

\* CVideoBufferPoolDRMPRIME::Return, first part, where the kernel calls of
\* Unref with the positions in F fail
ReturnEnterFailing(t, F) ==
  /\ pc[t] = "return"
  /\ m_critSection = NoThread
  /\ F \subseteq 1..Len(KernelCalls(Unref(Slot(cur[t])).calls))
  /\ m_critSection' = t
  /\ LET u == UnrefFailing(Slot(cur[t]), F)
     IN /\ m_all' = [m_all EXCEPT ![cur[t] + 1] = u.buf]
        /\ Issue(Succeeded(u.calls))
        /\ issued' = u.calls
  /\ pc' = [pc EXCEPT ![t] = "returning"]
  /\ UNCHANGED <<m_used, m_free, poolAlive, codecVars, held, cur, inGetPicture,
                 maxUsed>>

NextTeardown ==
  \/ \E t \in Threads, F \in SUBSET (1..(AV_DRM_MAX_PLANES + 1)) :
       ReturnEnterFailing(t, F)
  \/ \E t \in Threads : ReturnLeave(t)
  \/ \E t \in Threads : ReleaseEnd(t)

SpecTeardown == InitTeardown /\ [][NextTeardown]_vars

\* ---- properties ----
InUsed(id) == id \in Elems(m_used)
InFree(id) == id \in Elems(m_free)
\* a Release has taken the count of the slot to zero and its Return is not done
Returning(id) == \E t \in Threads : pc[t] \in {"return", "returning"} /\ cur[t] = id
FbOwners(fb) == {id \in Ids : Slot(id).m_fb_id = fb}
GemOwners(h) == {<<id, p>> \in Ids \X (0..(AV_DRM_MAX_PLANES - 1)) :
                   Slot(id).m_handles[p] = h}
FrameOwners(f) == {id \in Ids : Slot(id).m_pFrame = f}

\* C1: after any sequence of Get() and Return(id) calls, with any id the pool
\* has created, no id is in both m_used and m_free.
C1_AtMostOneOwner == \A id \in Ids : ~(InUsed(id) /\ InFree(id))

\* C2 as stated: m_used and m_free are disjoint and cover the ids of m_all,
\* every id in m_used has a count >= 1, every id in m_free has count 0 and is
\* idle.
C2_Original ==
  /\ Elems(m_used) \cap Elems(m_free) = {}
  /\ Elems(m_used) \cup Elems(m_free) = Ids
  /\ \A id \in Elems(m_used) : Slot(id).m_refCount >= 1
  /\ \A id \in Elems(m_free) : Slot(id).m_refCount = 0 /\ Idle(Slot(id))

\* C2 as amended: the same, except that an id in m_used has count 0 while the
\* Release that took the count to zero has not finished its Return.
C2_PoolInvariant ==
  /\ Elems(m_used) \cap Elems(m_free) = {}
  /\ Elems(m_used) \cup Elems(m_free) = Ids
  /\ \A id \in Elems(m_used) :
       \/ Slot(id).m_refCount >= 1 /\ ~Returning(id)
       \/ Slot(id).m_refCount = 0 /\ Returning(id)
  /\ \A id \in Elems(m_free) : Slot(id).m_refCount = 0 /\ Idle(Slot(id))

C2_Witness ==
  /\ m_free # <<>>
  /\ \E id \in Elems(m_used) : Slot(id).m_refCount = 2 /\ ~Idle(Slot(id))

\* C3: in every handout cycle of a slot the count never goes negative, the
\* slot is in m_free only if Release was called once more than Acquire, it
\* gets there (its Return is issued) whenever that is so, and the cycle sees
\* exactly one Return.
C3_RefCountBalance ==
  \A id \in Ids :
    LET b == Slot(id)
    IN /\ b.m_refCount >= 0
       /\ b.m_refCount = 1 + b.nAcquire - b.nRelease
       /\ b.nReturn <= 1
       /\ InFree(id) => b.nRelease = b.nAcquire + 1 /\ b.nReturn = 1
       /\ b.nRelease = b.nAcquire + 1 => InFree(id) \/ Returning(id)
       /\ Returning(id) => b.nRelease = b.nAcquire + 1 /\ b.nReturn = 0 /\ InUsed(id)

C3_Witness ==
  \E id \in Ids :
    /\ Slot(id).nAcquire >= 1
    /\ Slot(id).nRelease = Slot(id).nAcquire + 1
    /\ InFree(id) /\ Slot(id).nReturn = 1
    /\ \A t \in Threads : pc[t] = "idle"

\* C4: when the holders of a handle release it from different threads, only
\* one of them finds the count at zero and runs Return, and the id is put in
\* m_free once.
C4_OneReturn ==
  \A id \in Ids :
    /\ Cardinality({t \in Threads : InRelease(t) /\ cur[t] = id
                                    /\ pc[t] # "released"}) <= 1
    /\ Count(m_free, id) + Count(m_used, id) = 1
    /\ Slot(id).nReturn + (IF Returning(id) THEN 1 ELSE 0) <= 1

C4_Witness ==
  \E id \in Ids :
    /\ Slot(id).nAcquire = 1 /\ Slot(id).nRelease = 2
    /\ Count(m_free, id) = 1
    /\ \E t \in Threads : pc[t] = "released" /\ cur[t] = id

\* C5: m_all never shrinks; it grows by one slot, and only in a step that
\* finds m_free empty; a Get that finds m_free non-empty leaves m_all as long
\* as it is and returns the slot at the front of m_free, which is then no
\* longer in m_free.
C5_MonotonicGrowth ==
  [][/\ Len(m_all') >= Len(m_all)
     /\ Len(m_all') > Len(m_all) => m_free = <<>> /\ Len(m_all') = Len(m_all) + 1
     /\ (pc[Decoder] = "get" /\ pc'[Decoder] = "setref" /\ m_free # <<>>) =>
          /\ Len(m_all') = Len(m_all)
          /\ cur'[Decoder] = Head(m_free)
          /\ cur'[Decoder] \notin Elems(m_free')
          /\ cur'[Decoder] \in Elems(m_used')]_vars

C5_Witness == pc[Decoder] = "setref" /\ cur[Decoder] < Len(m_all) - 1

\* C6: whatever the interleaving of Return and Get, a slot in m_free is idle
\* and no Return is at work on it, and the slot Get has just returned is idle.
C6_FreeSlotsIdle ==
  /\ \A id \in Elems(m_free) : Idle(Slot(id)) /\ ~Returning(id)
  /\ pc[Decoder] = "setref" =>
       Idle(Slot(cur[Decoder])) /\ ~Returning(cur[Decoder])
  /\ \A t \in Threads : pc[t] = "returning" => m_critSection = t

C6_Witness ==
  /\ pc[Decoder] = "get"
  /\ \E t \in Renderers : pc[t] = "returning" /\ m_critSection = t
  /\ gemOpen # {}

\* the step of SetRef: a new payload comes to be held by a slot
SetRefStep(id) ==
  /\ id \in Ids /\ Len(m_all') = Len(m_all)
  /\ framesLive' # framesLive /\ framesLive \subseteq framesLive'

\* C7 as stated: SetRef releases what the slot holds before it takes the new
\* frame, so that afterwards the slot holds the new frame and nothing of the
\* previous occupant.
C7_Original ==
  [][\A id \in Ids :
       (SetRefStep(id) /\ m_all'[id + 1] # m_all[id + 1]) =>
         /\ m_all'[id + 1].m_pFrame \in framesLive' \ framesLive
         /\ m_all'[id + 1].m_fb_id = 0
         /\ m_all'[id + 1].m_handles = NoHandles
         /\ Slot(id).m_pFrame \notin framesLive'
         /\ Slot(id).m_fb_id \notin fbOpen']_vars

\* C7 as amended: SetRef releases nothing; it makes the slot hold the new
\* frame and leaves m_fb_id and m_handles as they are, so the slot holds the
\* new frame and nothing else exactly when it was idle, as Return leaves it.
C7_SetRefTakesFrame ==
  [][(framesLive' # framesLive /\ framesLive \subseteq framesLive') =>
       /\ fbOpen' = fbOpen /\ gemOpen' = gemOpen /\ badRelease' = badRelease
       /\ \E id \in Ids :
            /\ Len(m_all') = Len(m_all)
            /\ \A o \in Ids \ {id} : m_all'[o + 1] = m_all[o + 1]
            /\ {m_all'[id + 1].m_pFrame} = framesLive' \ framesLive
            /\ m_all'[id + 1].m_fb_id = Slot(id).m_fb_id
            /\ m_all'[id + 1].m_handles = Slot(id).m_handles
            /\ Idle(Slot(id)) =>
                 m_all'[id + 1] = [Slot(id) EXCEPT !.m_pFrame = m_all'[id + 1].m_pFrame]]_vars

C7_Witness ==
  \E id \in Elems(m_used) :
    /\ ~InFree(id)
    /\ framesLive = {Slot(id).m_pFrame}
    /\ Slot(id).m_fb_id = 0 /\ Slot(id).m_handles = NoHandles
    /\ fbOpen = {} /\ gemOpen = {} /\ ~badRelease

\* C8: a second Unref of a slot issues no kernel call and changes nothing;
\* no kernel object is released that is not held, and every object that is
\* held belongs to one slot, which is the one that will release it.
C8_IdempotentTeardown ==
  /\ \A id \in Ids :
       LET u == Unref(Slot(id))
       IN /\ KernelCalls(Unref(u.buf).calls) = <<>>
          /\ Unref(u.buf).buf = u.buf
          /\ Idle(u.buf)
  /\ ~badRelease
  /\ \A fb \in fbOpen : Cardinality(FbOwners(fb)) = 1
  /\ \A h \in gemOpen : Cardinality(GemOwners(h)) = 1
  /\ \A id \in Ids : Slot(id).m_fb_id \in fbOpen \cup {0}
  /\ \A id \in Ids, p \in 0..(AV_DRM_MAX_PLANES - 1) :
       Slot(id).m_handles[p] \in gemOpen \cup {0}

C8_Witness ==
  /\ \E t \in Threads : pc[t] = "returning" /\ Idle(Slot(cur[t]))
  /\ 1 \notin fbOpen /\ 2 \in fbOpen
  /\ 1 \notin gemOpen /\ 2 \in gemOpen

\* C9: when the pool is destroyed every slot of m_all has been deleted once,
\* none is skipped, every slot is idle, nothing stays open in the kernel and
\* nothing was released twice; before that no slot is deleted.
C9_DestroyReleasesAll ==
  /\ ~poolAlive =>
       /\ \A id \in Ids : Slot(id).nDelete = 1 /\ Idle(Slot(id))
       /\ gemOpen = {} /\ fbOpen = {} /\ framesLive = {}
       /\ ~badRelease
  /\ poolAlive => \A id \in Ids : Slot(id).nDelete = 0

C9_Witness == ~poolAlive /\ Len(m_all) >= 2 /\ m_free # <<>>

\* C10: the pool and its slots exist as long as the codec or any handle
\* does: once a slot is deleted nobody holds a reference to it or is in the
\* middle of a call on it.
C10_PoolLifetime ==
  /\ m_videoBufferPool => poolAlive
  /\ (~poolAlive \/ \E id \in Ids : Slot(id).nDelete > 0) =>
       /\ videoBuffer = NoBuf
       /\ \A t \in Renderers : held[t] = {}
       /\ \A t \in Threads : pc[t] = "idle" /\ cur[t] = NoBuf
       /\ ~m_videoBufferPool
       /\ \A id \in Ids : Slot(id).m_refCount = 0 /\ ~Slot(id).m_pool

C10_Witness ==
  /\ ~m_videoBufferPool /\ poolAlive
  /\ videoBuffer # NoBuf
  /\ \E t \in Renderers : held[t] # {}
\* C11: a Return(id) for an id that is not in m_used is detected and changes
\* neither m_used nor m_free: no step puts an id that is not in m_used into
\* m_free, and no id is in m_free more than once.
C11_ReturnChecked ==
  [][\A id \in Ids :
       /\ ~InUsed(id) => Count(m_free', id) <= Count(m_free, id)
       /\ Count(m_free', id) <= 1]_vars

\* C12: when the allocation path of Get fails, the GetPicture that called it
\* ends with VC_ERROR and leaves m_all, m_used and m_free as they were; a
\* GetPicture that has reached its Get goes on only with the buffer of a Get
\* that succeeded.
C12_AllocFailureSurfaced ==
  [][(pc[Decoder] = "get" /\ pc'[Decoder] # "get") =>
       \/ pc'[Decoder] = "setref"
       \/ /\ pc'[Decoder] = "idle" /\ ret' = "VC_ERROR"
          /\ m_all' = m_all /\ m_used' = m_used /\ m_free' = m_free]_vars
\* C13: under fair scheduling, once the last holder of a buffer has called
\* Release, its id comes to be in m_free, idle and with the pool lock free,
\* so that the next Get can take it and does not have to create a slot.
C13_Recycled ==
  \A id \in 0..(MaxFairSlots - 1) :
    Returning(id) ~> (InFree(id) /\ Idle(Slot(id)) /\ m_critSection = NoThread)

C13_Witness ==
  /\ pc[Decoder] = "get" /\ Len(m_all) = MaxFairSlots
  /\ \E t \in Renderers : pc[t] = "released" /\ m_free = <<cur[t]>>
  /\ m_critSection = NoThread
\* C14 as stated: every slot has its kernel handles and its frame both
\* populated or both absent.
C14_Original ==
  \A id \in Ids :
    \/ Idle(Slot(id))
    \/ /\ Slot(id).m_pFrame # 0
       /\ Slot(id).m_fb_id # 0 /\ Slot(id).m_handles # NoHandles

\* C14 as amended: a slot has kernel handles only while it has a frame; it
\* has a frame and no handles from SetRef until the render path imports the
\* frame; and whenever the frame of a slot changes the slot is left without
\* handles, so its handles never describe an older frame.
C14_HandlesOfCurrentFrame ==
  [][\A k \in 1..Len(m_all') :
       LET b == m_all'[k]
       IN /\ (b.m_fb_id # 0 \/ b.m_handles # NoHandles) => b.m_pFrame # 0
          /\ (k <= Len(m_all) /\ b.m_pFrame # m_all[k].m_pFrame) =>
               b.m_fb_id = 0 /\ b.m_handles = NoHandles]_vars

C14_Witness ==
  \E id, o \in Ids :
    /\ Slot(id).m_pFrame # 0 /\ Slot(id).m_fb_id = 0 /\ Slot(id).m_handles = NoHandles
    /\ videoBuffer = id /\ \E t \in Renderers : id \in held[t]
    /\ Slot(o).m_pFrame # 0 /\ Slot(o).m_fb_id # 0 /\ Slot(o).m_handles # NoHandles

\* C15: in every Unref the frame-buffer registration is removed before any
\* memory handle is closed, the memory handles are closed in ascending plane
\* index, the frame is released last, and everything the slot holds gets its
\* release call, once.
C15_TeardownOrder ==
  [][\A t \in Threads :
       (pc[t] = "return" /\ pc'[t] = "returning") =>
         LET b == Slot(cur[t])
             c == issued'
             PlaneOf(h) == CHOOSE p \in 0..(AV_DRM_MAX_PLANES - 1) : b.m_handles[p] = h
             Fb == {k \in 1..Len(c) : c[k].op = "drmModeRmFB"}
             Gem == {k \in 1..Len(c) : c[k].op = "DRM_IOCTL_GEM_CLOSE"}
         IN /\ \A j \in Fb, k \in Gem : j < k
            /\ \A j, k \in Gem : j < k => PlaneOf(c[j].arg) < PlaneOf(c[k].arg)
            /\ Len(c) = Cardinality(Fb) + Cardinality(Gem) + 1
            /\ c[Len(c)].op = "av_frame_unref" /\ c[Len(c)].arg = b.m_pFrame
            /\ {c[k].arg : k \in Fb} = {b.m_fb_id} \ {0}
            /\ Cardinality(Fb) = Cardinality({b.m_fb_id} \ {0})
            /\ {c[k].arg : k \in Gem} =
                 {b.m_handles[p] : p \in 0..(AV_DRM_MAX_PLANES - 1)} \ {0}
            /\ Cardinality(Gem) = Cardinality({c[k].arg : k \in Gem})]_vars

C15_Witness ==
  /\ \E t \in Threads : pc[t] = "returning"
  /\ Len(issued) = AV_DRM_MAX_PLANES + 2
  /\ \A k \in 1..Len(issued) : issued[k].ok
  /\ gemOpen = {} /\ fbOpen = {} /\ framesLive = {}

\* C16: when a kernel release call of Unref fails, the calls for everything
\* else the slot holds are still made in the same Unref and take effect, the
\* slot is idle afterwards, and Return goes on to move the id from m_used to
\* m_free.
C16_TeardownFailureNonFatal ==
  [][\A t \in Threads :
       /\ (pc[t] = "return" /\ pc'[t] = "returning") =>
            LET b == Slot(cur[t])
                Called(o, a) == {k \in 1..Len(issued') :
                                   issued'[k].op = o /\ issued'[k].arg = a}
            IN /\ Idle(m_all'[cur[t] + 1])
               /\ b.m_fb_id # 0 =>
                    /\ Called("drmModeRmFB", b.m_fb_id) # {}
                    /\ \A k \in Called("drmModeRmFB", b.m_fb_id) :
                         issued'[k].ok => b.m_fb_id \notin fbOpen'
               /\ \A p \in 0..(AV_DRM_MAX_PLANES - 1) :
                    b.m_handles[p] # 0 =>
                      /\ Called("DRM_IOCTL_GEM_CLOSE", b.m_handles[p]) # {}
                      /\ \A k \in Called("DRM_IOCTL_GEM_CLOSE", b.m_handles[p]) :
                           issued'[k].ok => b.m_handles[p] \notin gemOpen'
               /\ b.m_pFrame # 0 => b.m_pFrame \notin framesLive'
       /\ (pc[t] = "returning" /\ pc'[t] # "returning") =>
            /\ InUsed(cur[t]) /\ cur[t] \notin Elems(m_used')
            /\ m_free' = Append(m_free, cur[t])
            /\ Idle(m_all'[cur[t] + 1])
            /\ m_critSection' = NoThread]_vars

C16_Witness ==
  /\ \E j, k \in 1..Len(issued) :
       /\ j < k /\ ~issued[j].ok
       /\ issued[k].op = "DRM_IOCTL_GEM_CLOSE" /\ issued[k].ok
       /\ issued[j].arg \in fbOpen \cup gemOpen
       /\ issued[k].arg \notin gemOpen
  /\ m_free = <<0>> /\ m_used = <<>> /\ Idle(Slot(0))
  /\ \A t \in Threads : pc[t] = "idle"

\* C17 as stated: m_all, m_used and m_free change only under the pool lock,
\* and no thread makes a kernel release call while it holds the pool lock.
C17_Original ==
  [][/\ (m_used' # m_used \/ m_free' # m_free \/ Len(m_all') # Len(m_all)) =>
          \/ pc[Decoder] = "get" /\ m_critSection = NoThread
          \/ \E t \in Threads : pc[t] = "returning" /\ m_critSection = t
     /\ (fbOpen' # fbOpen \/ gemOpen' # gemOpen) /\ fbOpen' \subseteq fbOpen
          /\ gemOpen' \subseteq gemOpen =>
          m_critSection' = NoThread]_vars

\* C17 as amended: m_all, m_used and m_free change only under the pool lock;
\* Return holds the lock across Unref too, so the kernel release calls for a
\* returned slot are made by the thread that holds the lock, and Get on
\* another thread does not run until that Return is over; only the pool's
\* destructor releases kernel resources without the lock.
C17_LockScope ==
  [][/\ (m_used' # m_used \/ m_free' # m_free \/ Len(m_all') # Len(m_all)) =>
          \/ pc[Decoder] = "get" /\ pc'[Decoder] = "setref" /\ m_critSection = NoThread
          \/ \E t \in Threads : pc[t] = "returning" /\ pc'[t] = "released"
                                /\ m_critSection = t /\ m_critSection' = NoThread
     /\ ((fbOpen' # fbOpen \/ gemOpen' # gemOpen) /\ fbOpen' \subseteq fbOpen
          /\ gemOpen' \subseteq gemOpen /\ poolAlive') =>
          \E t \in Threads : /\ pc[t] = "return" /\ pc'[t] = "returning"
                             /\ m_critSection = NoThread /\ m_critSection' = t
     /\ (\E t \in Threads : pc'[t] = "returning") =>
          \E t \in Threads : pc'[t] = "returning" /\ m_critSection' = t
     /\ (pc[Decoder] = "get" /\ pc'[Decoder] = "setref") =>
          \A t \in Threads : pc[t] # "returning"]_vars

C17_Witness ==
  /\ pc[Decoder] = "get" /\ m_free = <<>>
  /\ \E t \in Renderers : pc[t] = "returning" /\ m_critSection = t
                          /\ Idle(Slot(cur[t]))
  /\ 1 \notin gemOpen /\ 2 \in gemOpen

\* C18: m_free is a first-in-first-out queue: it changes only by a Return
\* that appends its id at the back or by a Get that takes the id at the
\* front, which is the one that was returned earliest.
C18_FifoReuse ==
  [][m_free' # m_free =>
       \/ /\ m_free # <<>> /\ m_free' = Tail(m_free)
          /\ pc[Decoder] = "get" /\ pc'[Decoder] = "setref"
          /\ cur'[Decoder] = Head(m_free)
       \/ \E t \in Threads : /\ pc[t] = "returning" /\ pc'[t] = "released"
                             /\ m_free' = Append(m_free, cur[t])]_vars

C18_Witness ==
  /\ pc[Decoder] = "setref" /\ cur[Decoder] = 1
  /\ m_free = <<0>>

\* C19: a GetPicture that returns VC_BUFFER, VC_EOF or VC_ERROR leaves m_all,
\* m_used, m_free, every reference count and the picture's videoBuffer as
\* they are; a GetPicture that returns VC_PICTURE releases the previous buffer
\* of the picture once, if there is one, then calls Get once, and its
\* picture carries the buffer of that Get.
C19_OnlyPictureTouchesPool ==
  [][/\ (ret' # ret /\ ret' # "VC_PICTURE") =>
          /\ m_all' = m_all /\ m_used' = m_used /\ m_free' = m_free
          /\ videoBuffer' = videoBuffer /\ pc' = pc
     /\ (pc[Decoder] = "idle" /\ pc'[Decoder] \in {"get", "return"}
           /\ m_pFrame' # m_pFrame) =>
          /\ m_used' = m_used /\ m_free' = m_free
          /\ IF videoBuffer = NoBuf THEN m_all' = m_all
             ELSE /\ m_all'[videoBuffer + 1].m_refCount = Slot(videoBuffer).m_refCount - 1
                  /\ \A o \in Ids \ {videoBuffer} : m_all'[o + 1] = m_all[o + 1]
     /\ (pc[Decoder] = "get" /\ pc'[Decoder] = "setref") =>
          /\ videoBuffer = NoBuf /\ videoBuffer' = NoBuf
          /\ Len(m_used') = Len(m_used) + 1
          /\ m_all'[cur'[Decoder] + 1].m_refCount = 1
     /\ (pc[Decoder] = "setref" /\ pc'[Decoder] # "setref") =>
          /\ pc'[Decoder] = "idle" /\ ret' = "VC_PICTURE"
          /\ videoBuffer' = cur[Decoder]
          /\ m_used' = m_used /\ m_free' = m_free
     /\ (ret' = "VC_PICTURE" /\ videoBuffer' # videoBuffer /\ pc'[Decoder] = "idle"
           /\ pc[Decoder] # "idle") =>
          pc[Decoder] = "setref"]_vars

C19_Witness ==
  /\ ret = "VC_ERROR" /\ pc[Decoder] = "idle"
  /\ videoBuffer # NoBuf /\ Slot(videoBuffer).m_refCount = 2
  /\ m_free # <<>>

\* C20: the number of slots of m_all is the largest length m_used has had,
\* and every slot has the id that is its index in m_all.
C20_HighWaterMark ==
  /\ Len(m_all) = maxUsed
  /\ \A id \in Ids : Slot(id).m_id = id

C20_Witness ==
  /\ Len(m_all) = 2 /\ maxUsed = 2
  /\ Len(m_used) = 1 /\ m_free # <<>>
  /\ pc[Decoder] = "setref"
====
